---- MODULE Spec2Model ----
(***************************************************************************)
(* Telemetry acquisition and reconciliation engine of fps-overlay:         *)
(*   src/hwinfo_reader.py     HWiNFOReader  (shared-memory feed, Tier C)    *)
(*   src/hardware_monitor.py  NvidiaMonitor (vendor GPU feed, Tier B),     *)
(*                            WMIMonitor    (instrumentation, Tier A),     *)
(*                            HardwareMonitor (aggregation, psutil Tier D) *)
(*                                                                         *)
(* Conventions.                                                            *)
(*  - A Python str is a sequence of one-character strings, so that         *)
(*    lower(), strip(), startswith() and the substring test `in` are       *)
(*    computed and not assumed.                                            *)
(*  - A Python float is a record [k, v]: k = "fin" with v the value in     *)
(*    hundredths, k = "nan", k = "inf" (+infinity); None is k = "none".    *)
(*    A dict is a record holding None for a key that is not in the dict    *)
(*    (no dict of the program ever stores None under a key).               *)
(*  - Byte counts are carried in MiB, so 1024 ** 3 bytes is 1024 MiB.      *)
(***************************************************************************)
EXTENDS Integers, Sequences, FiniteSets, TLC

(***************************************************************************)
(* Python str                                                              *)
(***************************************************************************)
Upper == <<"A","B","C","D","E","F","G","H","I","J","K","L","M",
           "N","O","P","Q","R","S","T","U","V","W","X","Y","Z">>
Lower == <<"a","b","c","d","e","f","g","h","i","j","k","l","m",
           "n","o","p","q","r","s","t","u","v","w","x","y","z">>

LowerChar(c) ==
    IF \E i \in DOMAIN Upper : Upper[i] = c
    THEN Lower[CHOOSE i \in DOMAIN Upper : Upper[i] = c]
    ELSE c

\* str.lower()
lower(s) == [i \in DOMAIN s |-> LowerChar(s[i])]

\* t in s
Contains(s, t) ==
    \E i \in 0..(Len(s) - Len(t)) : SubSeq(s, i + 1, i + Len(t)) = t

\* s.startswith(t)
startswith(s, t) == Len(s) >= Len(t) /\ SubSeq(s, 1, Len(t)) = t

\* s.strip()
strip(s) ==
    IF \A i \in DOMAIN s : s[i] = " " THEN <<>>
    ELSE LET a == CHOOSE i \in DOMAIN s :
                      s[i] # " " /\ \A j \in 1..(i - 1) : s[j] = " "
             b == CHOOSE i \in DOMAIN s :
                      s[i] # " " /\ \A j \in (i + 1)..Len(s) : s[j] = " "
         IN  SubSeq(s, a, b)

\* the literals the classifiers test for
t_ryzen     == <<"r","y","z","e","n">>
t_tctl      == <<"t","c","t","l">>
t_tdie      == <<"t","d","i","e">>
t_cpu       == <<"c","p","u">>
t_gpu       == <<"g","p","u">>
t_package   == <<"p","a","c","k","a","g","e">>
t_core      == <<"c","o","r","e">>
t_pump      == <<"p","u","m","p">>
t_fan       == <<"f","a","n">>
t_fps       == <<"f","p","s">>
t_framerate == <<"f","r","a","m","e","r","a","t","e">>
t_fullfps   == <<"f","u","l","l","s","c","r","e","e","n"," ","f","p","s">>
t_d3d       == <<"d","3","d"," ","3","d">>
t_radeon    == <<"r","a","d","e","o","n">>
t_amdradeon == <<"a","m","d"," ","r","a","d","e","o","n">>
t_geforce   == <<"g","e","f","o","r","c","e">>
t_nvidia    == <<"n","v","i","d","i","a">>
t_rtx       == <<"r","t","x">>
t_gtx       == <<"g","t","x">>
t_arc       == <<"a","r","c">>
t_rx_sp     == <<"r","x"," ">>
t_rx        == <<"r","x">>
t_intel     == <<"i","n","t","e","l">>
t_Unknown   == <<"U","n","k","n","o","w","n">>

(***************************************************************************)
(* Python float / None                                                     *)
(***************************************************************************)
None   == [k |-> "none", v |-> 0]
NaN    == [k |-> "nan", v |-> 0]
PosInf == [k |-> "inf", v |-> 0]
Fin(h) == [k |-> "fin", v |-> h]          \* h hundredths
Num(n) == [k |-> "fin", v |-> n * 100]    \* the number n

\* bool(x): `if x` / `x and ...`
Truthy(x) ==
    CASE x.k = "none" -> FALSE
      [] x.k = "fin"  -> x.v # 0
      [] OTHER        -> TRUE

\* x > n for an integer literal n (false for NaN, true for +inf)
Gt(x, n) ==
    CASE x.k = "fin" -> x.v > n * 100
      [] x.k = "inf" -> TRUE
      [] OTHER       -> FALSE

\* x < n for an integer literal n
Lt(x, n) ==
    CASE x.k = "fin" -> x.v < n * 100
      [] OTHER       -> FALSE

\* x > y on floats
GtF(x, y) ==
    CASE x.k = "fin" /\ y.k = "fin" -> x.v > y.v
      [] x.k = "inf" /\ y.k = "fin" -> TRUE
      [] OTHER                      -> FALSE

\* x == x (the code's NaN test)
EqSelf(x) == x.k # "nan"

\* int(x) raises ValueError on NaN and OverflowError on an infinity
IntRaises(x) == x.k \in {"nan", "inf"}

\* int(x) truncates toward zero
ToInt(x) ==
    IF x.v >= 0 THEN Fin((x.v \div 100) * 100)
    ELSE Fin(0 - (((0 - x.v) \div 100) * 100))

(***************************************************************************)
(* hwinfo_reader.py: sensor types and the two classifiers                  *)
(***************************************************************************)
SENSOR_TYPE_TEMP  == 1
SENSOR_TYPE_FAN   == 3
SENSOR_TYPE_CLOCK == 6
SENSOR_TYPE_USAGE == 7
SENSOR_TYPE_OTHER == 8

\* HWiNFOSensor (id and unit are parsed but read by no classifier)
HWiNFOSensor(name, label, value, sensor_type) ==
    [name |-> name, label |-> label, value |-> value, sensor_type |-> sensor_type]

NoCpuStats == [cpu_temp |-> None, cpu_clock |-> None, cpu_fan |-> None]
NoGpuStats == [fps |-> None, gpu_temp |-> None, gpu_clock |-> None,
               gpu_fan |-> None, gpu_usage |-> None]

\* one iteration of the loop of get_cpu_stats; acc = [stats, best_clock, raised]
CpuLoopBody(acc, sensor) ==
    LET name_lower  == lower(sensor.name)
        label_lower == lower(sensor.label)
        stats       == acc.stats
    IN
    IF acc.raised THEN acc
    ELSE IF sensor.sensor_type = SENSOR_TYPE_TEMP THEN
        IF stats.cpu_temp = None
        THEN IF Contains(name_lower, t_ryzen) /\ Contains(label_lower, t_tctl)
             THEN [acc EXCEPT !.stats.cpu_temp = sensor.value]
             ELSE IF Contains(label_lower, t_cpu) \/ Contains(label_lower, t_package)
             THEN [acc EXCEPT !.stats.cpu_temp = sensor.value]
             ELSE acc
        ELSE acc
    ELSE IF sensor.sensor_type = SENSOR_TYPE_CLOCK THEN
        IF Contains(name_lower, t_ryzen) \/ Contains(name_lower, t_cpu)
        THEN IF Contains(label_lower, t_core) /\ Truthy(sensor.value) /\ Gt(sensor.value, 0)
             THEN IF GtF(sensor.value, acc.best_clock)
                  THEN [acc EXCEPT !.best_clock = sensor.value]
                  ELSE acc
             ELSE acc
        ELSE acc
    ELSE IF sensor.sensor_type = SENSOR_TYPE_FAN THEN
        IF stats.cpu_fan = None
           /\ (Contains(label_lower, t_cpu) \/ Contains(label_lower, t_pump))
        THEN IF Gt(sensor.value, 0)
             THEN IF IntRaises(sensor.value)
                  THEN [acc EXCEPT !.raised = TRUE]
                  ELSE [acc EXCEPT !.stats.cpu_fan = ToInt(sensor.value)]
             ELSE acc
        ELSE acc
    ELSE acc

RECURSIVE CpuLoop(_, _, _)
CpuLoop(acc, sensors, i) ==
    IF i > Len(sensors) THEN acc
    ELSE CpuLoop(CpuLoopBody(acc, sensors[i]), sensors, i + 1)

\* get_cpu_stats over the list read_sensors returned: [stats, raised]
get_cpu_stats(sensors) ==
    LET acc == CpuLoop([stats |-> NoCpuStats, best_clock |-> Num(0), raised |-> FALSE],
                       sensors, 1)
    IN  IF acc.raised THEN [stats |-> NoCpuStats, raised |-> TRUE]
        ELSE IF Gt(acc.best_clock, 0)
        THEN [stats |-> [acc.stats EXCEPT !.cpu_clock = acc.best_clock], raised |-> FALSE]
        ELSE [stats |-> acc.stats, raised |-> FALSE]

\* the first loop of get_gpu_stats (global scan for an FPS label)
RECURSIVE FpsLoop(_, _, _)
FpsLoop(stats, sensors, i) ==
    IF i > Len(sensors) THEN stats
    ELSE IF stats.fps # None THEN stats
    ELSE LET label_lower == lower(sensors[i].label)
             value       == sensors[i].value
         IN  IF Contains(label_lower, t_framerate) \/ Contains(label_lower, t_fullfps)
                \/ strip(label_lower) = t_fps
             THEN IF Truthy(value) /\ Gt(value, 0)
                  THEN FpsLoop([stats EXCEPT !.fps = value], sensors, i + 1)
                  ELSE FpsLoop(stats, sensors, i + 1)
             ELSE FpsLoop(stats, sensors, i + 1)

is_gpu(name_lower) ==
    \/ Contains(name_lower, t_radeon)
    \/ Contains(name_lower, t_geforce)
    \/ Contains(name_lower, t_nvidia)
    \/ Contains(name_lower, t_rtx)
    \/ Contains(name_lower, t_gtx)
    \/ Contains(name_lower, t_arc)
    \/ Contains(name_lower, t_rx_sp)
    \/ startswith(strip(name_lower), t_rx)

\* one iteration of the second loop of get_gpu_stats; acc = [stats, raised]
GpuLoopBody(acc, sensor) ==
    LET name_lower  == lower(sensor.name)
        label_lower == lower(sensor.label)
        stats       == acc.stats
    IN
    IF acc.raised THEN acc
    ELSE IF ~is_gpu(name_lower) THEN acc
    ELSE IF sensor.sensor_type = SENSOR_TYPE_TEMP THEN
        IF stats.gpu_temp = None
           /\ (Contains(label_lower, t_gpu) \/ Contains(name_lower, t_gpu))
        THEN [acc EXCEPT !.stats.gpu_temp = sensor.value]
        ELSE acc
    ELSE IF sensor.sensor_type = SENSOR_TYPE_CLOCK THEN
        IF stats.gpu_clock = None
           /\ (Contains(label_lower, t_gpu) \/ Contains(label_lower, t_core))
        THEN [acc EXCEPT !.stats.gpu_clock = sensor.value]
        ELSE acc
    ELSE IF sensor.sensor_type = SENSOR_TYPE_FAN THEN
        IF stats.gpu_fan = None
           /\ (Contains(label_lower, t_gpu) \/ Contains(label_lower, t_fan))
        THEN IF IntRaises(sensor.value)
             THEN [acc EXCEPT !.raised = TRUE]
             ELSE [acc EXCEPT !.stats.gpu_fan = ToInt(sensor.value)]
        ELSE acc
    ELSE IF sensor.sensor_type = SENSOR_TYPE_USAGE THEN
        IF stats.gpu_usage = None
           /\ ((Contains(label_lower, t_gpu) /\ Contains(label_lower, t_core))
               \/ Contains(label_lower, t_d3d))
        THEN [acc EXCEPT !.stats.gpu_usage = sensor.value]
        ELSE acc
    ELSE acc

RECURSIVE GpuLoop(_, _, _)
GpuLoop(acc, sensors, i) ==
    IF i > Len(sensors) THEN acc
    ELSE GpuLoop(GpuLoopBody(acc, sensors[i]), sensors, i + 1)

\* get_gpu_stats over the list read_sensors returned: [stats, raised]
get_gpu_stats(sensors) ==
    LET acc == GpuLoop([stats |-> FpsLoop(NoGpuStats, sensors, 1), raised |-> FALSE],
                       sensors, 1)
    IN  IF acc.raised THEN [stats |-> NoGpuStats, raised |-> TRUE] ELSE acc

(***************************************************************************)
(* hwinfo_reader.py: the mapping lifecycle and read_sensors                *)
(*                                                                         *)
(* A world w = [rd, os, log] is the reader object, the kernel's handle      *)
(* table, and the reader's methods entered so far in the current call      *)
(* rd: handle, map_address (0 is None/NULL), kernel32 (attribute is set),  *)
(*     initialized                                                         *)
(* os: open (handles open), views (mapped views), issued (handles handed   *)
(*     out so far; handle n is the n-th one), closes (CloseHandle calls    *)
(*     per handle), peak (most handles ever open at once)                  *)
(***************************************************************************)
MaxOpens == 2

HWINFO_SIGNATURE == 1399416648     \* 0x53695748, "HWiS"

Min(a, b) == IF a < b THEN a ELSE b
Max(a, b) == IF a > b THEN a ELSE b

\* kernel32.OpenFileMappingW: a fresh handle
OpenFileMappingW(os) ==
    LET h == os.issued + 1
    IN  [os EXCEPT !.issued = h, !.open = @ \cup {h},
                   !.peak = Max(@, Cardinality(os.open \cup {h}))]

\* kernel32.MapViewOfFile on handle h: the view's address is h
MapViewOfFile(os, h) == [os EXCEPT !.views = @ \cup {h}]

UnmapViewOfFile(os, a) == [os EXCEPT !.views = @ \ {a}]

CloseHandle(os, h) ==
    [os EXCEPT !.open = @ \ {h}, !.closes[h] = Min(@ + 1, 2)]

\* mutant of _close: the view is unmapped but the handle is never closed
_close_KeepsHandle(w) ==
    LET os1 == IF w.rd.map_address # 0 /\ w.rd.kernel32
               THEN UnmapViewOfFile(w.os, w.rd.map_address) ELSE w.os
    IN  [rd |-> [w.rd EXCEPT !.handle = 0, !.map_address = 0, !.initialized = FALSE],
         os |-> os1, log |-> Append(w.log, "_close")]

\* HWiNFOReader._close
_close(w) ==
    LET os1 == IF w.rd.map_address # 0 /\ w.rd.kernel32
               THEN UnmapViewOfFile(w.os, w.rd.map_address) ELSE w.os
        os2 == IF w.rd.handle # 0 /\ w.rd.kernel32
               THEN CloseHandle(os1, w.rd.handle) ELSE os1
    IN  [rd |-> [w.rd EXCEPT !.handle = 0, !.map_address = 0, !.initialized = FALSE],
         os |-> os2, log |-> Append(w.log, "_close")]

\* HWiNFOReader._init_shared_memory; openOk, mapOk: whether OpenFileMappingW
\* and MapViewOfFile succeed
_init_shared_memory(w, openOk, mapOk) ==
    LET w1 == _close([w EXCEPT !.log = Append(@, "_init_shared_memory")])
        h  == w1.os.issued + 1
    IN  IF ~openOk THEN w1
        ELSE IF ~mapOk
        THEN [w1 EXCEPT !.rd = [w1.rd EXCEPT !.handle = h, !.map_address = 0],
                        !.os = CloseHandle(OpenFileMappingW(w1.os), h)]
        ELSE [w1 EXCEPT !.rd = [w1.rd EXCEPT !.handle = h, !.map_address = h,
                                             !.initialized = TRUE, !.kernel32 = TRUE],
                        !.os = MapViewOfFile(OpenFileMappingW(w1.os), h)]

\* mutant of _ensure_initialized: an uninitialized feed is left as it is
_ensure_initialized_NoRetry(w, openOk, mapOk) == w

\* HWiNFOReader._ensure_initialized
_ensure_initialized(w, openOk, mapOk) ==
    IF w.rd.initialized THEN w ELSE _init_shared_memory(w, openOk, mapOk)

\* len(_read_bytes(offset, size)) when the read does not fault
ReadLen(w, size) == IF ~w.rd.initialized THEN 0 ELSE size

\* bytes.split(b'\x00')[0].decode(): the characters before the first NUL
cstr(b) ==
    IF \E i \in DOMAIN b : b[i] = "NUL"
    THEN SubSeq(b, 1, (CHOOSE i \in DOMAIN b :
                          b[i] = "NUL" /\ \A j \in 1..(i - 1) : b[j] # "NUL") - 1)
    ELSE b

(***************************************************************************)
(* The mapped segment as read_sensors sees it, img:                        *)
(*   signature, sensor_size, sensor_count, reading_size, reading_count     *)
(*   (header words), sensors (the name bytes of the sensor records that    *)
(*   lie inside the view), readings (the reading records inside the view:  *)
(*   [sensor_type, sensor_index, label, value]).  A record the header      *)
(*   counts but the view does not hold makes _read_bytes fault, which      *)
(*   ctypes raises as OSError.                                             *)
(***************************************************************************)
\* the loop over the sensor table: [names, raised]; names maps index -> name
RECURSIVE SensorNamesLoop(_, _, _, _)
SensorNamesLoop(w, img, i, names) ==
    IF i >= img.sensor_count THEN [names |-> names, raised |-> FALSE]
    ELSE IF i >= Len(img.sensors) THEN [names |-> names, raised |-> TRUE]
    ELSE IF ReadLen(w, Min(img.sensor_size, 200)) < 136
         THEN SensorNamesLoop(w, img, i + 1, names)
         ELSE SensorNamesLoop(w, img, i + 1,
                  [j \in DOMAIN names \cup {i} |->
                      IF j = i THEN cstr(img.sensors[i + 1]) ELSE names[j]])

\* the loop over the reading table: [sensors, raised]
RECURSIVE ReadingsLoop(_, _, _, _, _)
ReadingsLoop(w, img, names, i, sensors) ==
    IF i >= img.reading_count THEN [sensors |-> sensors, raised |-> FALSE]
    ELSE IF i >= Len(img.readings) THEN [sensors |-> sensors, raised |-> TRUE]
    ELSE IF ReadLen(w, Min(img.reading_size, 300)) < 292
         THEN ReadingsLoop(w, img, names, i + 1, sensors)
         ELSE LET r == img.readings[i + 1]
                  sensor_name == IF r.sensor_index \in DOMAIN names
                                 THEN names[r.sensor_index] ELSE t_Unknown
              IN  ReadingsLoop(w, img, names, i + 1,
                      Append(sensors, HWiNFOSensor(sensor_name, cstr(r.label),
                                                   r.value, r.sensor_type)))

\* the records the two loops pass over with `continue` (lines 164-165 and
\* 176-177) because fewer than 136, or 292, bytes of them were read
ShortRecords(w, img) ==
    LET sn == SensorNamesLoop(w, img, 0, <<>>)
    IN  (IF ReadLen(w, Min(img.sensor_size, 200)) < 136
         THEN Min(img.sensor_count, Len(img.sensors)) ELSE 0)
        + (IF ~sn.raised /\ ReadLen(w, Min(img.reading_size, 300)) < 292
           THEN Min(img.reading_count, Len(img.readings)) ELSE 0)

\* mutant of ParseTables: the readings are emitted without the sensor table
ParseTables_NoJoin(w, img) ==
    LET sn == SensorNamesLoop(w, img, 0, <<>>)
        rl == ReadingsLoop(w, img, <<>>, 0, <<>>)
    IN  IF sn.raised THEN [w |-> w, sensors |-> <<>>, failed |-> TRUE]
        ELSE [w |-> w, sensors |-> rl.sensors, failed |-> rl.raised]

\* mutant of ParseTables: a short record ends the call with nothing, as a
\* fault does
ParseTables_ShortAborts(w, img) ==
    LET sn == SensorNamesLoop(w, img, 0, <<>>)
        rl == ReadingsLoop(w, img, sn.names, 0, <<>>)
    IN  IF sn.raised \/ ShortRecords(w, img) > 0
        THEN [w |-> w, sensors |-> <<>>, failed |-> TRUE]
        ELSE [w |-> w, sensors |-> rl.sensors, failed |-> rl.raised]

\* the two table loops of read_sensors (lines 152-195) on a valid header
ParseTables(w, img) ==
    LET sn == SensorNamesLoop(w, img, 0, <<>>)
        rl == ReadingsLoop(w, img, sn.names, 0, <<>>)
    IN  IF sn.raised THEN [w |-> w, sensors |-> <<>>, failed |-> TRUE]
        ELSE [w |-> w, sensors |-> rl.sensors, failed |-> rl.raised]

\* mutant of CheckSignature: on a wrong signature the mapping is closed and
\* not opened again in this call
CheckSignature_NoReinit(w, env) ==
    IF env.img.signature # HWINFO_SIGNATURE
    THEN [w |-> _close(w), sensors |-> <<>>, failed |-> TRUE]
    ELSE ParseTables(w, env.img)

\* mutant of CheckSignature: after a re-initialization that succeeds, the
\* call goes on to parse the tables of the new mapping
CheckSignature_ParsesNewMapping(w, env) ==
    IF env.img.signature # HWINFO_SIGNATURE
    THEN LET w2 == _ensure_initialized(_close(w), env.reopenOk, env.remapOk)
         IN  IF w2.rd.initialized
             THEN ParseTables(w2, [env.img EXCEPT
                                      !.signature = HWINFO_SIGNATURE,
                                      !.reading_count = 1,
                                      !.readings = << [sensor_type |-> SENSOR_TYPE_TEMP,
                                                       sensor_index |-> 0,
                                                       label |-> <<"C","P","U">>,
                                                       value |-> Num(55)] >>])
             ELSE [w |-> w2, sensors |-> <<>>, failed |-> TRUE]
    ELSE ParseTables(w, env.img)

\* read_sensors from the signature check on (lines 139-195)
CheckSignature(w, env) ==
    IF env.img.signature # HWINFO_SIGNATURE
    THEN [w |-> _ensure_initialized(_close(w), env.reopenOk, env.remapOk),
          sensors |-> <<>>, failed |-> TRUE]
    ELSE ParseTables(w, env.img)

\* mutant of read_sensors: a call that had to map the segment returns
\* nothing and leaves the tables to the next call
read_sensors_LateRecovery(w, env) ==
    LET w1 == _ensure_initialized(w, env.openOk, env.mapOk)
    IN
    IF ~w.rd.initialized \/ ~w1.rd.initialized
    THEN [w |-> w1, sensors |-> <<>>, failed |-> TRUE]
    ELSE CheckSignature(w1, env)

\* HWiNFOReader.read_sensors: [w, sensors, failed]; failed records that the
\* call hit a failure (no mapping, bad header, or an exception it swallowed).
\* env: openOk, mapOk for the first _ensure_initialized, reopenOk, remapOk
\*      for the re-initialization, img the segment.
read_sensors(w, env) ==
    LET w1 == _ensure_initialized(w, env.openOk, env.mapOk)
    IN
    IF ~w1.rd.initialized THEN [w |-> w1, sensors |-> <<>>, failed |-> TRUE]
    ELSE IF ReadLen(w1, 48) < 48
    THEN LET w2 == _ensure_initialized(_close(w1), env.reopenOk, env.remapOk)
         IN  IF ~w2.rd.initialized \/ ReadLen(w2, 48) < 48
             THEN [w |-> w2, sensors |-> <<>>, failed |-> TRUE]
             ELSE CheckSignature(w2, env)
    ELSE CheckSignature(w1, env)

(***************************************************************************)
(* hardware_monitor.py: NvidiaMonitor                                      *)
(***************************************************************************)
NvMetrics == {"temp", "util", "mem", "clock", "fan"}

NoNvidiaStats == [gpu_temp |-> None, gpu_usage |-> None, gpu_memory_used |-> None,
                  gpu_memory_total |-> None, gpu_clock |-> None,
                  gpu_fan_percent |-> None]

\* bytes / (1024 ** 3), with the byte count in MiB and the result in hundredths
ToGB(mib) == Fin((mib * 100) \div 1024)

\* mutant of NvidiaMonitor_get_stats: the five reads share one try block, so
\* the first read that raises drops every read after it
NvidiaMonitor_get_stats_OneTry(nv, lib, fails, dev) ==
    LET ok(ms) == lib.state = "on" /\ ms \cap fails = {}
    IN
    IF ~nv.initialized \/ ~nv.handle THEN NoNvidiaStats
    ELSE [gpu_temp         |-> IF ok({"temp"}) THEN dev.temp ELSE None,
          gpu_usage        |-> IF ok({"temp", "util"}) THEN dev.util ELSE None,
          gpu_memory_used  |-> IF ok({"temp", "util", "mem"})
                               THEN ToGB(dev.mem_used) ELSE None,
          gpu_memory_total |-> IF ok({"temp", "util", "mem"})
                               THEN ToGB(dev.mem_total) ELSE None,
          gpu_clock        |-> IF ok({"temp", "util", "mem", "clock"})
                               THEN dev.clock ELSE None,
          gpu_fan_percent  |-> IF ok(NvMetrics) THEN dev.fan ELSE None]

\* NvidiaMonitor.get_stats; lib = [state, shutdowns] is the NVML library,
\* fails: the NVML reads that raise, dev: what the device answers; an NVML
\* that was shut down answers every read with an error
NvidiaMonitor_get_stats(nv, lib, fails, dev) ==
    LET ok(m) == lib.state = "on" /\ m \notin fails
    IN
    IF ~nv.initialized \/ ~nv.handle THEN NoNvidiaStats
    ELSE [gpu_temp         |-> IF ok("temp") THEN dev.temp ELSE None,
          gpu_usage        |-> IF ok("util") THEN dev.util ELSE None,
          gpu_memory_used  |-> IF ok("mem") THEN ToGB(dev.mem_used) ELSE None,
          gpu_memory_total |-> IF ok("mem") THEN ToGB(dev.mem_total) ELSE None,
          gpu_clock        |-> IF ok("clock") THEN dev.clock ELSE None,
          gpu_fan_percent  |-> IF ok("fan") THEN dev.fan ELSE None]

\* NvidiaMonitor.shutdown on the library state lib: [state, shutdowns]
NvidiaMonitor_shutdown(nv, lib) ==
    IF nv.initialized
    THEN [state |-> "off", shutdowns |-> lib.shutdowns + 1]
    ELSE lib

(***************************************************************************)
(* hardware_monitor.py: WMIMonitor                                         *)
(***************************************************************************)
NoOhmStats == [cpu_temp |-> None, cpu_clock |-> None, cpu_fan_rpm |-> None,
               gpu_temp |-> None, gpu_clock |-> None, gpu_usage |-> None,
               gpu_fan_rpm |-> None, gpu_power |-> None]

\* one iteration of the loop of get_all_ohm_stats; acc = [stats, raised];
\* sensor = [Name, SensorType, Parent, Value]
OhmLoopBody(acc, sensor) ==
    LET name        == sensor.Name
        stype       == sensor.SensorType
        parent      == sensor.Parent
        value       == sensor.Value
        name_lower  == lower(name)
        parent_lower == lower(parent)
        stats       == acc.stats
        is_cpu_sensor == Contains(parent_lower, t_cpu) \/ Contains(parent_lower, t_ryzen)
                         \/ Contains(parent_lower, t_intel)
        is_gpu_sensor == Contains(parent_lower, t_gpu) \/ Contains(parent_lower, t_radeon)
                         \/ Contains(parent_lower, t_geforce)
                         \/ Contains(parent_lower, t_amdradeon)
    IN
    IF acc.raised THEN acc
    ELSE IF value = None THEN acc
    ELSE IF stype = "Temperature" THEN
        IF Contains(name_lower, t_tctl) \/ Contains(name_lower, t_tdie)
           \/ (Contains(name_lower, t_core) /\ is_cpu_sensor)
        THEN IF Gt(value, 0) /\ stats.cpu_temp = None
             THEN [acc EXCEPT !.stats.cpu_temp = value]
             ELSE acc
        ELSE IF Contains(name_lower, t_gpu) /\ Contains(name_lower, t_core)
        THEN [acc EXCEPT !.stats.gpu_temp = value]
        ELSE IF is_gpu_sensor /\ Contains(name_lower, t_core)
        THEN [acc EXCEPT !.stats.gpu_temp = value]
        ELSE acc
    ELSE IF stype = "Clock" THEN
        IF is_cpu_sensor /\ Contains(name_lower, t_core)
        THEN IF Truthy(value) /\ Gt(value, 0) /\ EqSelf(value)
             THEN IF stats.cpu_clock = None
                  THEN [acc EXCEPT !.stats.cpu_clock = value]
                  ELSE acc
             ELSE acc
        ELSE IF Contains(name_lower, t_gpu) /\ Contains(name_lower, t_core)
        THEN IF Truthy(value) /\ Gt(value, 0) /\ EqSelf(value)
             THEN [acc EXCEPT !.stats.gpu_clock = value]
             ELSE acc
        ELSE IF is_gpu_sensor /\ Contains(name_lower, t_core)
        THEN IF Truthy(value) /\ Gt(value, 0) /\ EqSelf(value)
             THEN [acc EXCEPT !.stats.gpu_clock = value]
             ELSE acc
        ELSE acc
    ELSE IF stype = "Fan" THEN
        IF Truthy(value) /\ Gt(value, 0)
        THEN IF Contains(name_lower, t_cpu) \/ is_cpu_sensor
             THEN IF IntRaises(value) THEN [acc EXCEPT !.raised = TRUE]
                  ELSE [acc EXCEPT !.stats.cpu_fan_rpm = ToInt(value)]
             ELSE IF Contains(name_lower, t_gpu) \/ is_gpu_sensor
             THEN IF IntRaises(value) THEN [acc EXCEPT !.raised = TRUE]
                  ELSE [acc EXCEPT !.stats.gpu_fan_rpm = ToInt(value)]
             ELSE IF Contains(name_lower, t_fan)
             THEN IF stats.cpu_fan_rpm = None
                  THEN IF IntRaises(value) THEN [acc EXCEPT !.raised = TRUE]
                       ELSE [acc EXCEPT !.stats.cpu_fan_rpm = ToInt(value)]
                  ELSE acc
             ELSE acc
        ELSE acc
    ELSE IF stype = "Load" THEN
        IF (Contains(name_lower, t_gpu) /\ Contains(name_lower, t_core))
           \/ (is_gpu_sensor /\ Contains(name_lower, t_core))
        THEN [acc EXCEPT !.stats.gpu_usage = value]
        ELSE acc
    ELSE acc

RECURSIVE OhmLoop(_, _, _)
OhmLoop(acc, sensors, i) ==
    IF i > Len(sensors) THEN acc
    ELSE OhmLoop(OhmLoopBody(acc, sensors[i]), sensors, i + 1)

\* WMIMonitor.get_all_ohm_stats; q = [raises, sensors]: whether the Sensor()
\* query raises, and the sensors it returns.  The except clause keeps what
\* the loop had stored when an iteration raised.
get_all_ohm_stats(wmi, q) ==
    IF ~wmi.ohm_available THEN NoOhmStats
    ELSE IF q.raises THEN NoOhmStats
    ELSE OhmLoop([stats |-> NoOhmStats, raised |-> FALSE], q.sensors, 1).stats

\* mutant of get_cpu_temp_from_wmi: the first zone's temperature is returned
\* without the sanity check
get_cpu_temp_from_wmi_NoRange(wmi, t) ==
    IF ~wmi.initialized THEN None
    ELSE IF t.raises THEN None
    ELSE IF t.zones # <<>> THEN Fin(t.zones[1] * 10 - 27315)
    ELSE None

\* WMIMonitor.get_cpu_temp_from_wmi; t = [raises, zones]: whether the query
\* raises, and the CurrentTemperature (tenths of Kelvin) of each thermal zone
get_cpu_temp_from_wmi(wmi, t) ==
    IF ~wmi.initialized THEN None
    ELSE IF t.raises THEN None
    ELSE IF t.zones # <<>>
    THEN LET celsius == Fin(t.zones[1] * 10 - 27315)
         IN  IF Gt(celsius, 0) /\ Lt(celsius, 150) THEN celsius ELSE None
    ELSE None

(***************************************************************************)
(* hardware_monitor.py: HardwareStats and the merge steps of get_stats     *)
(***************************************************************************)
\* HardwareStats() (cpu_name and gpu_name, copied from the WMI monitor's
\* construction and touched by no tier, are left out)
HardwareStats ==
    [cpu_temp |-> None, cpu_usage |-> Num(0), cpu_clock |-> None, cpu_fan_rpm |-> None,
     gpu_temp |-> None, gpu_usage |-> None, gpu_clock |-> None,
     gpu_memory_used |-> None, gpu_memory_total |-> None, gpu_fan_rpm |-> None,
     gpu_fan_percent |-> None, gpu_power |-> None,
     ram_usage |-> Num(0), ram_used_gb |-> Num(0), ram_total_gb |-> Num(0),
     fps |-> None]

\* `if key in d: stats.f = d[key]`
Assign(old, new) == IF new # None THEN new ELSE old

\* mutant of FillIn: the `is None` test is dropped
FillIn_Overrides(old, new) == IF new # None THEN new ELSE old

\* `if stats.f is None and key in d: stats.f = d[key]`
FillIn(old, new) == IF old = None /\ new # None THEN new ELSE old

\* mutant of ReadPsutil: ram.total is read where ram.used is meant
ReadPsutil_TotalForUsed(sample) ==
    [HardwareStats EXCEPT !.cpu_usage = sample.cpu_percent,
                          !.ram_usage = sample.percent,
                          !.ram_used_gb = Fin((sample.total * 100) \div 1024),
                          !.ram_total_gb = Fin((sample.total * 100) \div 1024)]

\* get_stats lines 366-375: psutil; sample = [cpu_percent, percent, used, total]
ReadPsutil(sample) ==
    [HardwareStats EXCEPT !.cpu_usage = sample.cpu_percent,
                          !.ram_usage = sample.percent,
                          !.ram_used_gb = ToGB(sample.used),
                          !.ram_total_gb = ToGB(sample.total)]

\* mutant of MergeOhm: the gpu_usage assignment is missing
MergeOhm_NoUsage(st, ohm) ==
    [st EXCEPT !.cpu_temp    = IF ohm.cpu_temp # None THEN ohm.cpu_temp ELSE @,
               !.cpu_clock   = IF ohm.cpu_clock # None THEN ohm.cpu_clock ELSE @,
               !.cpu_fan_rpm = IF ohm.cpu_fan_rpm # None THEN ohm.cpu_fan_rpm ELSE @,
               !.gpu_temp    = IF ohm.gpu_temp # None THEN ohm.gpu_temp ELSE @,
               !.gpu_clock   = IF ohm.gpu_clock # None THEN ohm.gpu_clock ELSE @,
               !.gpu_fan_rpm = IF ohm.gpu_fan_rpm # None THEN ohm.gpu_fan_rpm ELSE @,
               !.gpu_power   = IF ohm.gpu_power # None THEN ohm.gpu_power ELSE @]

\* get_stats lines 388-403
MergeOhm(st, ohm) ==
    [st EXCEPT !.cpu_temp    = Assign(@, ohm.cpu_temp),
               !.cpu_clock   = Assign(@, ohm.cpu_clock),
               !.cpu_fan_rpm = Assign(@, ohm.cpu_fan_rpm),
               !.gpu_temp    = Assign(@, ohm.gpu_temp),
               !.gpu_clock   = Assign(@, ohm.gpu_clock),
               !.gpu_usage   = Assign(@, ohm.gpu_usage),
               !.gpu_fan_rpm = Assign(@, ohm.gpu_fan_rpm),
               !.gpu_power   = Assign(@, ohm.gpu_power)]

\* mutant of MergeNvidia: the vendor values only fill fields that are absent
MergeNvidia_GapFill(st, nv) ==
    [st EXCEPT !.gpu_temp         = IF @ = None THEN nv.gpu_temp ELSE @,
               !.gpu_usage        = IF @ = None THEN nv.gpu_usage ELSE @,
               !.gpu_clock        = IF @ = None THEN nv.gpu_clock ELSE @,
               !.gpu_memory_used  = IF @ = None THEN nv.gpu_memory_used ELSE @,
               !.gpu_memory_total = IF @ = None THEN nv.gpu_memory_total ELSE @,
               !.gpu_fan_percent  = IF @ = None THEN nv.gpu_fan_percent ELSE @]

\* get_stats lines 413-424
MergeNvidia(st, nv) ==
    [st EXCEPT !.gpu_temp         = Assign(@, nv.gpu_temp),
               !.gpu_usage        = Assign(@, nv.gpu_usage),
               !.gpu_clock        = Assign(@, nv.gpu_clock),
               !.gpu_memory_used  = Assign(@, nv.gpu_memory_used),
               !.gpu_memory_total = Assign(@, nv.gpu_memory_total),
               !.gpu_fan_percent  = Assign(@, nv.gpu_fan_percent)]

\* get_stats lines 449-455
MergeFps(old, fps) ==
    IF fps # None
    THEN IF Gt(fps, 1)
         THEN IF IntRaises(fps) THEN old ELSE ToInt(fps)
         ELSE old
    ELSE old

\* mutant of MergeHwinfo: the fan fields are looked up under the Snapshot's
\* key names (cpu_fan_rpm, gpu_fan_rpm), which get_all_stats never holds
MergeHwinfo_RpmKeys(st, hw) ==
    [st EXCEPT !.cpu_temp    = IF @ = None /\ hw.cpu_temp # None THEN hw.cpu_temp ELSE @,
               !.cpu_clock   = IF @ = None /\ hw.cpu_clock # None THEN hw.cpu_clock ELSE @,
               !.gpu_temp    = IF @ = None /\ hw.gpu_temp # None THEN hw.gpu_temp ELSE @,
               !.gpu_usage   = IF @ = None /\ hw.gpu_usage # None THEN hw.gpu_usage ELSE @,
               !.gpu_clock   = IF @ = None /\ hw.gpu_clock # None THEN hw.gpu_clock ELSE @,
               !.fps         = MergeFps(@, hw.fps)]

\* get_stats lines 431-455
MergeHwinfo(st, hw) ==
    [st EXCEPT !.cpu_temp    = FillIn(@, hw.cpu_temp),
               !.cpu_clock   = FillIn(@, hw.cpu_clock),
               !.cpu_fan_rpm = FillIn(@, hw.cpu_fan),
               !.gpu_temp    = FillIn(@, hw.gpu_temp),
               !.gpu_usage   = FillIn(@, hw.gpu_usage),
               !.gpu_clock   = FillIn(@, hw.gpu_clock),
               !.gpu_fan_rpm = FillIn(@, hw.gpu_fan),
               !.fps         = MergeFps(@, hw.fps)]

NoHwinfoStats ==
    [cpu_temp |-> None, cpu_clock |-> None, cpu_fan |-> None, fps |-> None,
     gpu_temp |-> None, gpu_clock |-> None, gpu_fan |-> None, gpu_usage |-> None]

\* HWiNFOReader.get_all_stats: stats.update(cpu); stats.update(gpu)
get_all_stats(cpu, gpu) ==
    [cpu_temp |-> cpu.cpu_temp, cpu_clock |-> cpu.cpu_clock, cpu_fan |-> cpu.cpu_fan,
     fps |-> gpu.fps, gpu_temp |-> gpu.gpu_temp, gpu_clock |-> gpu.gpu_clock,
     gpu_fan |-> gpu.gpu_fan, gpu_usage |-> gpu.gpu_usage]

(***************************************************************************)
(* What the environment can answer: the sets the actions draw from         *)
(***************************************************************************)
MaxShutdowns == 2

\* sensor (device) names, labels
N_Ryzen  == <<"R","y","z","e","n","NUL","?">>
N_RTX    == <<"R","T","X">>
N_Board  == <<"B","o","a","r","d">>
L_Tctl   == <<"T","c","t","l">>
L_CPU    == <<"C","P","U">>
L_GPU    == <<"G","P","U","NUL","C","P","U">>
L_Core   == <<"C","o","r","e">>
L_GPUCore == <<"G","P","U"," ","C","o","r","e">>
L_CPUCore == <<"C","P","U"," ","C","o","r","e">>
L_Fan    == <<"F","a","n">>
L_GPUFan == <<"G","P","U"," ","F","a","n">>
L_Pump   == <<"P","u","m","p">>
L_FPS    == <<" ","F","P","S">>
P_cpu    == <<"/","a","m","d","c","p","u","/","0">>
P_gpu    == <<"/","g","p","u","-","n","v","/","0">>
P_lpc    == <<"/","l","p","c">>

\* a reading record of the segment
Reading(sensor_type, sensor_index, label, value) ==
    [sensor_type |-> sensor_type, sensor_index |-> sensor_index,
     label |-> label, value |-> value]

\* a segment with the HWiNFO signature holding three sensor records and the
\* reading records rs
Segment(rs) ==
    [signature |-> HWINFO_SIGNATURE,
     sensor_size |-> 264, sensor_count |-> 3, sensors |-> <<N_Ryzen, N_RTX, N_Board>>,
     reading_size |-> 316, reading_count |-> Len(rs), readings |-> rs]

StaleSegment == [Segment(<<>>) EXCEPT !.signature = 0]

ReadingLists ==
    { <<>>,
      << Reading(SENSOR_TYPE_TEMP, 0, L_Tctl, Num(55)),
         Reading(SENSOR_TYPE_TEMP, 1, L_GPU, Num(70)) >>,
      << Reading(SENSOR_TYPE_TEMP, 2, L_CPU, Num(200)),
         Reading(SENSOR_TYPE_CLOCK, 0, L_Core, Num(3900)) >>,
      << Reading(SENSOR_TYPE_CLOCK, 1, L_Core, Num(1800)),
         Reading(SENSOR_TYPE_USAGE, 1, L_GPUCore, Num(40)),
         Reading(SENSOR_TYPE_FAN, 2, L_CPU, Fin(120050)) >>,
      << Reading(SENSOR_TYPE_OTHER, 3, L_FPS, Fin(6050)),
         Reading(SENSOR_TYPE_FAN, 1, L_Fan, NaN) >>,
      << Reading(SENSOR_TYPE_FAN, 2, L_Pump, PosInf) >>,
      << Reading(SENSOR_TYPE_OTHER, 3, L_FPS, Fin(50)),
         Reading(SENSOR_TYPE_TEMP, 1, L_GPU, Num(-5)),
         Reading(SENSOR_TYPE_FAN, 1, L_Fan, Fin(90070)) >> }

\* the segments of the polls: every reading list, and for one list a
\* sensor stride below 136, a reading stride below 292, a reading count and
\* a sensor count that run past the view
Segments ==
    { Segment(rs) : rs \in ReadingLists }
    \cup { StaleSegment }
    \cup { LET g == Segment(<< Reading(SENSOR_TYPE_TEMP, 0, L_Tctl, Num(55)),
                               Reading(SENSOR_TYPE_TEMP, 1, L_GPU, Num(70)) >>)
           IN  [g EXCEPT !.sensor_size = 100],
           LET g == Segment(<< Reading(SENSOR_TYPE_TEMP, 0, L_Tctl, Num(55)) >>)
           IN  [g EXCEPT !.reading_size = 200],
           LET g == Segment(<< Reading(SENSOR_TYPE_TEMP, 0, L_Tctl, Num(55)) >>)
           IN  [g EXCEPT !.reading_count = 2],
           LET g == Segment(<< Reading(SENSOR_TYPE_TEMP, 0, L_Tctl, Num(55)) >>)
           IN  [g EXCEPT !.sensor_count = 4] }

Sensor(Name, SensorType, Parent, Value) ==
    [Name |-> Name, SensorType |-> SensorType, Parent |-> Parent, Value |-> Value]

\* the answers of the instrumentation namespace's Sensor() query
OhmQueries ==
    { [raises |-> TRUE, sensors |-> <<>>] }
    \cup { [raises |-> FALSE, sensors |-> ss] : ss \in
        { <<>>,
          << Sensor(L_Tctl, "Temperature", P_cpu, Num(55)),
             Sensor(L_GPUCore, "Temperature", P_gpu, Num(70)) >>,
          << Sensor(L_CPUCore, "Temperature", P_cpu, Num(200)) >>,
          << Sensor(L_GPUCore, "Temperature", P_gpu, Num(0)),
             Sensor(L_GPUCore, "Clock", P_gpu, Num(1800)),
             Sensor(L_CPUCore, "Clock", P_cpu, Num(4200)) >>,
          << Sensor(L_Fan, "Fan", P_lpc, Fin(120050)),
             Sensor(L_GPUFan, "Fan", P_gpu, PosInf),
             Sensor(L_GPUCore, "Load", P_gpu, Num(40)) >>,
          << Sensor(L_GPUCore, "Load", P_gpu, Num(40)),
             Sensor(L_Tctl, "Temperature", P_cpu, None),
             Sensor(L_GPUFan, "Fan", P_gpu, Num(900)) >> } }

\* the answers of the MSAcpi_ThermalZoneTemperature query
ZoneQueries ==
    { [raises |-> TRUE, zones |-> <<>>], [raises |-> FALSE, zones |-> <<>>],
      [raises |-> FALSE, zones |-> <<3232>>], [raises |-> FALSE, zones |-> <<2700>>],
      [raises |-> FALSE, zones |-> <<4500, 3232>>] }

\* what the GPU answers, and which NVML reads raise
NvDevices ==
    { [temp |-> Num(65), util |-> Num(0), mem_used |-> 2560, mem_total |-> 8192,
       clock |-> Num(1500), fan |-> Num(30)] }

NvFailures ==
    { {}, NvMetrics, {"temp"}, NvMetrics \ {"temp"}, {"util", "clock"}, {"mem", "fan"} }

\* psutil.cpu_percent and psutil.virtual_memory (used, total in MiB)
PsutilSamples ==
    { [cpu_percent |-> Fin(2340), percent |-> Fin(5060), used |-> 8294, total |-> 16384],
      [cpu_percent |-> Num(0), percent |-> Fin(2500), used |-> 2048, total |-> 8192] }

(***************************************************************************)
(* State                                                                   *)
(***************************************************************************)
VARIABLES
    reader,            \* HWiNFOReader: handle, map_address, kernel32, initialized
    kernel,            \* the kernel's handle table (see the world w above)
    hwinfo_reader,     \* HardwareMonitor.hwinfo_reader is not None
    nvidia_monitor,    \* NvidiaMonitor: initialized, handle (is not None)
    nvml,              \* the NVML library: state "never" | "on" | "off", shutdowns
    wmi_monitor,       \* WMIMonitor: initialized, ohm_available
    pc,                \* where get_stats is: "idle", "tierA", "tierB", "tierC_cpu",
                       \* "tierC_gpu", "returned" (stats is the Snapshot), "raised"
    stats,             \* get_stats' HardwareStats
    psutil_sample,     \* what psutil answered in this poll
    ohm_stats,         \* get_all_ohm_stats' dict of this poll
    wmi_temp,          \* get_cpu_temp_from_wmi's answer of this poll
    nvidia_stats,      \* NvidiaMonitor.get_stats' dict of this poll
    hwinfo_cpu_stats,  \* get_cpu_stats' dict of this poll
    hwinfo_stats,      \* get_all_stats' dict of this poll
    last_read,         \* the last read_sensors call of this poll
    shutdown_calls,    \* HardwareMonitor.shutdown calls so far
    prev_gpu_fan_percent,  \* history: gpu_fan_percent of the Snapshot that the
                       \* previous poll returned
    hwinfo_sensors,    \* the list under classification by get_cpu_stats and
                       \* get_gpu_stats (SpecClassify)
    ohm_sensors,       \* the list under classification by get_all_ohm_stats
    classified         \* the results of the classifications of these lists so
                       \* far: cpu, gpu, ohm, each a sequence of results

vars == <<reader, kernel, hwinfo_reader, nvidia_monitor, nvml, wmi_monitor, pc, stats,
          psutil_sample, ohm_stats, wmi_temp, nvidia_stats, hwinfo_cpu_stats,
          hwinfo_stats, last_read, shutdown_calls, prev_gpu_fan_percent,
          hwinfo_sensors, ohm_sensors, classified>>

\* the variables of the classifier passes, which no HardwareMonitor step touches
classifier_vars == <<hwinfo_sensors, ohm_sensors, classified>>

NotClassified == [cpu |-> <<>>, gpu |-> <<>>, ohm |-> <<>>]

NoSample == [cpu_percent |-> Num(0), percent |-> Num(0), used |-> 0, total |-> 0]

\* no read_sensors call yet in this poll
NoRead == [calls |-> 0, len |-> 0, failed |-> FALSE, stale |-> FALSE, stale_before |-> FALSE,
           skipped |-> 0]

\* the world a call on the reader starts in
World == [rd |-> reader, os |-> kernel, log |-> <<>>]

\* HWiNFOReader.__init__ before _init_shared_memory runs
NewReader == [handle |-> 0, map_address |-> 0, kernel32 |-> FALSE, initialized |-> FALSE]

NewKernel == [open |-> {}, views |-> {}, issued |-> 0,
              closes |-> [h \in 1..MaxOpens |-> 0], peak |-> 0]

\* the outcomes of OpenFileMappingW and MapViewOfFile in one _init_shared_memory
InitOutcomes(w) ==
    IF w.os.issued < MaxOpens
    THEN {<<FALSE, FALSE>>, <<TRUE, FALSE>>, <<TRUE, TRUE>>}
    ELSE {<<FALSE, FALSE>>}

PollLocalsReset ==
    /\ stats' = HardwareStats
    /\ psutil_sample' = NoSample
    /\ ohm_stats' = NoOhmStats
    /\ wmi_temp' = None
    /\ nvidia_stats' = NoNvidiaStats
    /\ hwinfo_cpu_stats' = NoCpuStats
    /\ hwinfo_stats' = NoHwinfoStats
    /\ last_read' = NoRead

\* HardwareMonitor.__init__: NvidiaMonitor(), WMIMonitor(), HWiNFOReader()
Init ==
    /\ \E o \in {"unavailable", "no_handle", "ok"} :
          /\ nvml = [state |-> IF o = "unavailable" THEN "never" ELSE "on", shutdowns |-> 0]
          /\ nvidia_monitor = [initialized |-> o = "ok", handle |-> o = "ok"]
    /\ \E o \in {"unavailable", "wmi", "ohm"} :
          wmi_monitor = [initialized |-> o # "unavailable", ohm_available |-> o = "ohm"]
    /\ \/ /\ hwinfo_reader = FALSE
          /\ reader = NewReader
          /\ kernel = NewKernel
       \/ /\ hwinfo_reader = TRUE
          /\ \E o \in InitOutcomes([rd |-> NewReader, os |-> NewKernel, log |-> <<>>]) :
                LET w == _init_shared_memory([rd |-> NewReader, os |-> NewKernel,
                                              log |-> <<>>], o[1], o[2])
                IN  reader = w.rd /\ kernel = w.os
    /\ pc = "idle"
    /\ stats = HardwareStats
    /\ psutil_sample = NoSample
    /\ ohm_stats = NoOhmStats
    /\ wmi_temp = None
    /\ nvidia_stats = NoNvidiaStats
    /\ hwinfo_cpu_stats = NoCpuStats
    /\ hwinfo_stats = NoHwinfoStats
    /\ last_read = NoRead
    /\ shutdown_calls = 0
    /\ prev_gpu_fan_percent = None
    /\ hwinfo_sensors = <<>>
    /\ ohm_sensors = <<>>
    /\ classified = NotClassified

(***************************************************************************)
(* HardwareMonitor.get_stats, one action per source it consults            *)
(***************************************************************************)
\* mutant of PollBegin: the poll starts from the Snapshot of the previous
\* poll instead of a fresh HardwareStats()
PollBegin_FromLast ==
    /\ pc = "idle"
    /\ \E sample \in PsutilSamples :
          /\ psutil_sample' = sample
          /\ stats' = [ReadPsutil(sample) EXCEPT !.gpu_fan_percent = prev_gpu_fan_percent]
    /\ pc' = "tierA"
    /\ UNCHANGED <<reader, kernel, hwinfo_reader, nvidia_monitor, nvml, wmi_monitor,
                   ohm_stats, wmi_temp, nvidia_stats, hwinfo_cpu_stats, hwinfo_stats,
                   last_read, shutdown_calls>>
    /\ UNCHANGED <<prev_gpu_fan_percent, classifier_vars>>

\* mutant of PollBegin: the NVML block runs at the head of the poll, before
\* the OHM/LHM block
PollBegin_NvidiaFirst ==
    /\ pc = "idle"
    /\ \E sample \in PsutilSamples, dev \in NvDevices :
          LET nv == NvidiaMonitor_get_stats(nvidia_monitor, nvml, {}, dev)
          IN  /\ psutil_sample' = sample
              /\ nvidia_stats' = nv
              /\ stats' = MergeNvidia(ReadPsutil(sample), nv)
    /\ pc' = "tierA"
    /\ UNCHANGED <<reader, kernel, hwinfo_reader, nvidia_monitor, nvml, wmi_monitor,
                   ohm_stats, wmi_temp, hwinfo_cpu_stats, hwinfo_stats,
                   last_read, shutdown_calls>>
    /\ UNCHANGED <<prev_gpu_fan_percent, classifier_vars>>

\* lines 366-375: a fresh HardwareStats, psutil
PollBegin ==
    /\ pc = "idle"
    /\ \E sample \in PsutilSamples :
          /\ psutil_sample' = sample
          /\ stats' = ReadPsutil(sample)
    /\ pc' = "tierA"
    /\ UNCHANGED <<reader, kernel, hwinfo_reader, nvidia_monitor, nvml, wmi_monitor,
                   ohm_stats, wmi_temp, nvidia_stats, hwinfo_cpu_stats, hwinfo_stats,
                   last_read, shutdown_calls>>
    /\ UNCHANGED <<prev_gpu_fan_percent, classifier_vars>>

\* lines 385-407: OHM/LHM, then the thermal-zone fallback
TierA ==
    /\ pc = "tierA"
    /\ IF wmi_monitor.initialized
       THEN \E q \in (IF wmi_monitor.ohm_available THEN OhmQueries
                      ELSE {[raises |-> FALSE, sensors |-> <<>>]}) :
               LET ohm == get_all_ohm_stats(wmi_monitor, q)
                   st  == MergeOhm(stats, ohm)
               IN  /\ ohm_stats' = ohm
                   /\ IF st.cpu_temp = None
                      THEN \E t \in ZoneQueries :
                              LET c == get_cpu_temp_from_wmi(wmi_monitor, t)
                              IN  /\ wmi_temp' = c
                                  /\ stats' = [st EXCEPT !.cpu_temp = c]
                      ELSE /\ wmi_temp' = None
                           /\ stats' = st
       ELSE UNCHANGED <<ohm_stats, wmi_temp, stats>>
    /\ pc' = "tierB"
    /\ UNCHANGED <<reader, kernel, hwinfo_reader, nvidia_monitor, nvml, wmi_monitor,
                   psutil_sample, nvidia_stats, hwinfo_cpu_stats, hwinfo_stats,
                   last_read, shutdown_calls>>
    /\ UNCHANGED <<prev_gpu_fan_percent, classifier_vars>>

\* lines 410-424: NVML
TierB ==
    /\ pc = "tierB"
    /\ IF nvidia_monitor.initialized
       THEN \E fails \in (IF nvml.state = "on" THEN NvFailures ELSE {NvMetrics}),
               dev \in NvDevices :
               LET nv == NvidiaMonitor_get_stats(nvidia_monitor, nvml, fails, dev)
               IN  /\ nvidia_stats' = nv
                   /\ stats' = MergeNvidia(stats, nv)
       ELSE UNCHANGED <<nvidia_stats, stats>>
    /\ pc' = "tierC_cpu"
    /\ UNCHANGED <<reader, kernel, hwinfo_reader, nvidia_monitor, nvml, wmi_monitor,
                   psutil_sample, ohm_stats, wmi_temp, hwinfo_cpu_stats, hwinfo_stats,
                   last_read, shutdown_calls>>
    /\ UNCHANGED <<prev_gpu_fan_percent, classifier_vars>>

\* what one read_sensors call can meet, from world w: the outcomes of its
\* _ensure_initialized, the segment, and the outcomes of a re-initialization
ReadEnvs(w) ==
    UNION { LET w1 == _ensure_initialized(w, o[1], o[2])
            IN  IF ~w1.rd.initialized
                THEN { [openOk |-> o[1], mapOk |-> o[2], img |-> StaleSegment,
                        reopenOk |-> FALSE, remapOk |-> FALSE] }
                ELSE UNION { IF img.signature = HWINFO_SIGNATURE
                             THEN { [openOk |-> o[1], mapOk |-> o[2], img |-> img,
                                     reopenOk |-> FALSE, remapOk |-> FALSE] }
                             ELSE { [openOk |-> o[1], mapOk |-> o[2], img |-> img,
                                     reopenOk |-> r[1], remapOk |-> r[2]] :
                                    r \in InitOutcomes(w1) }
                           : img \in Segments }
          : o \in (IF w.rd.initialized THEN {<<FALSE, FALSE>>} ELSE InitOutcomes(w)) }

\* what last_read records of a read_sensors call
ReadRecord(env, rs, w1) ==
    LET stale == w1.rd.initialized /\ env.img.signature # HWINFO_SIGNATURE
    IN  [calls |-> last_read.calls + 1, len |-> Len(rs.sensors), failed |-> rs.failed,
         stale |-> stale, stale_before |-> last_read.stale,
         skipped |-> IF w1.rd.initialized /\ ~stale
                     THEN ShortRecords(w1, env.img) ELSE 0]

\* lines 427-428, first half of get_all_stats: get_cpu_stats
TierC_cpu ==
    /\ pc = "tierC_cpu"
    /\ IF hwinfo_reader
       THEN \E env \in ReadEnvs(World) :
               LET w  == World
                   rs == read_sensors(w, env)
                   c  == get_cpu_stats(rs.sensors)
               IN  /\ reader' = rs.w.rd
                   /\ kernel' = rs.w.os
                   /\ last_read' = ReadRecord(env, rs,
                                       _ensure_initialized(w, env.openOk, env.mapOk))
                   /\ hwinfo_cpu_stats' = c.stats
                   /\ pc' = IF c.raised THEN "raised" ELSE "tierC_gpu"
       ELSE /\ pc' = "returned"
            /\ UNCHANGED <<reader, kernel, last_read, hwinfo_cpu_stats>>
    /\ UNCHANGED <<hwinfo_reader, nvidia_monitor, nvml, wmi_monitor, stats, psutil_sample,
                   ohm_stats, wmi_temp, nvidia_stats, hwinfo_stats, shutdown_calls>>
    /\ UNCHANGED <<prev_gpu_fan_percent, classifier_vars>>

\* second half of get_all_stats: get_gpu_stats; then lines 430-458
TierC_gpu ==
    /\ pc = "tierC_gpu"
    /\ \E env \in ReadEnvs(World) :
          LET w  == World
              rs == read_sensors(w, env)
              g  == get_gpu_stats(rs.sensors)
              hw == get_all_stats(hwinfo_cpu_stats, g.stats)
          IN  /\ reader' = rs.w.rd
              /\ kernel' = rs.w.os
              /\ last_read' = ReadRecord(env, rs,
                                  _ensure_initialized(w, env.openOk, env.mapOk))
              /\ IF g.raised
                 THEN /\ pc' = "raised"
                      /\ UNCHANGED <<hwinfo_stats, stats>>
                 ELSE /\ pc' = "returned"
                      /\ hwinfo_stats' = hw
                      /\ stats' = MergeHwinfo(stats, hw)
    /\ UNCHANGED <<hwinfo_reader, nvidia_monitor, nvml, wmi_monitor, psutil_sample,
                   ohm_stats, wmi_temp, nvidia_stats, hwinfo_cpu_stats, shutdown_calls>>
    /\ UNCHANGED <<prev_gpu_fan_percent, classifier_vars>>

\* get_stats has returned its Snapshot, or raised: the caller's next tick
PollEnd ==
    /\ pc \in {"returned", "raised"}
    /\ pc' = "idle"
    /\ PollLocalsReset
    /\ UNCHANGED <<reader, kernel, hwinfo_reader, nvidia_monitor, nvml, wmi_monitor,
                   shutdown_calls>>
    /\ prev_gpu_fan_percent' = IF pc = "returned" THEN stats.gpu_fan_percent
                               ELSE prev_gpu_fan_percent
    /\ UNCHANGED classifier_vars

\* HardwareMonitor.shutdown
Shutdown ==
    /\ pc = "idle"
    /\ shutdown_calls < MaxShutdowns
    /\ nvml' = NvidiaMonitor_shutdown(nvidia_monitor, nvml)
    /\ shutdown_calls' = shutdown_calls + 1
    /\ UNCHANGED <<reader, kernel, hwinfo_reader, nvidia_monitor, wmi_monitor, pc, stats,
                   psutil_sample, ohm_stats, wmi_temp, nvidia_stats, hwinfo_cpu_stats,
                   hwinfo_stats, last_read>>
    /\ UNCHANGED <<prev_gpu_fan_percent, classifier_vars>>

Next ==
    \/ PollBegin
    \/ TierA
    \/ TierB
    \/ TierC_cpu
    \/ TierC_gpu
    \/ PollEnd
    \/ Shutdown

Spec == Init /\ [][Next]_vars

(***************************************************************************)
(* The classifiers on their own: get_cpu_stats and get_gpu_stats over a    *)
(* list that read_sensors returned, get_all_ohm_stats over a list that the *)
(* Sensor() query returned, each list classified up to MaxPasses times     *)
(***************************************************************************)
MaxReadings == 2
MaxPasses == 2

N_APU == <<"R","y","z","e","n"," ","R","a","d","e","o","n">>

\* the readings a list is drawn from
HwinfoReadings ==
    { HWiNFOSensor(cstr(N_Ryzen), L_Tctl, Num(55), SENSOR_TYPE_TEMP),
      HWiNFOSensor(N_Board, L_CPU, Num(200), SENSOR_TYPE_TEMP),
      HWiNFOSensor(N_RTX, cstr(L_GPU), Num(70), SENSOR_TYPE_TEMP),
      HWiNFOSensor(N_RTX, L_CPU, Num(80), SENSOR_TYPE_TEMP),
      HWiNFOSensor(cstr(N_Ryzen), L_Core, Num(3900), SENSOR_TYPE_CLOCK),
      HWiNFOSensor(cstr(N_Ryzen), L_Core, Num(4200), SENSOR_TYPE_CLOCK),
      HWiNFOSensor(N_APU, L_Core, Num(3600), SENSOR_TYPE_CLOCK),
      HWiNFOSensor(N_RTX, L_GPUCore, Num(0), SENSOR_TYPE_CLOCK),
      HWiNFOSensor(N_RTX, L_Core, Num(1800), SENSOR_TYPE_CLOCK),
      HWiNFOSensor(N_Board, L_Pump, Fin(50), SENSOR_TYPE_FAN),
      HWiNFOSensor(N_Board, L_CPU, Fin(120050), SENSOR_TYPE_FAN),
      HWiNFOSensor(N_RTX, L_Fan, NaN, SENSOR_TYPE_FAN),
      HWiNFOSensor(N_RTX, L_GPUFan, Fin(90070), SENSOR_TYPE_FAN),
      HWiNFOSensor(N_RTX, L_GPUCore, Num(40), SENSOR_TYPE_USAGE),
      HWiNFOSensor(N_RTX, L_GPUCore, Num(0), SENSOR_TYPE_USAGE),
      HWiNFOSensor(N_Board, L_FPS, Fin(6050), SENSOR_TYPE_OTHER) }

OhmReadings ==
    { Sensor(L_Tctl, "Temperature", P_cpu, Num(55)),
      Sensor(L_CPUCore, "Temperature", P_cpu, Num(200)),
      Sensor(L_Tctl, "Temperature", P_cpu, None),
      Sensor(L_GPUCore, "Temperature", P_gpu, Num(70)),
      Sensor(L_GPUCore, "Temperature", P_gpu, Num(0)),
      Sensor(L_CPUCore, "Clock", P_cpu, Num(4200)),
      Sensor(L_CPUCore, "Clock", P_cpu, NaN),
      Sensor(L_GPUCore, "Clock", P_gpu, Num(1800)),
      Sensor(L_GPUCore, "Clock", P_gpu, Num(1500)),
      Sensor(L_Fan, "Fan", P_lpc, Fin(120050)),
      Sensor(L_GPUFan, "Fan", P_gpu, Num(900)),
      Sensor(L_GPUFan, "Fan", P_gpu, Fin(50)),
      Sensor(L_GPUFan, "Fan", P_gpu, PosInf),
      Sensor(L_GPUCore, "Load", P_gpu, Num(40)),
      Sensor(L_GPUCore, "Load", P_gpu, Num(0)) }

\* the ordered lists of up to MaxReadings readings
ListsOver(A) == UNION { [1..k -> A] : k \in 0..MaxReadings }

HwinfoLists == ListsOver(HwinfoReadings)
OhmLists == ListsOver(OhmReadings)

\* a monitor with every backend available, and the lists to classify: one
\* for the shared-memory classifiers, or one for the instrumentation
\* classifier, or one for each
InitClassify ==
    /\ nvml = [state |-> "on", shutdowns |-> 0]
    /\ nvidia_monitor = [initialized |-> TRUE, handle |-> TRUE]
    /\ wmi_monitor = [initialized |-> TRUE, ohm_available |-> TRUE]
    /\ hwinfo_reader = TRUE
    /\ LET w == _init_shared_memory([rd |-> NewReader, os |-> NewKernel, log |-> <<>>],
                                    TRUE, TRUE)
       IN  reader = w.rd /\ kernel = w.os
    /\ pc = "idle"
    /\ stats = HardwareStats
    /\ psutil_sample = NoSample
    /\ ohm_stats = NoOhmStats
    /\ wmi_temp = None
    /\ nvidia_stats = NoNvidiaStats
    /\ hwinfo_cpu_stats = NoCpuStats
    /\ hwinfo_stats = NoHwinfoStats
    /\ last_read = NoRead
    /\ shutdown_calls = 0
    /\ prev_gpu_fan_percent = None
    /\ \/ hwinfo_sensors \in HwinfoLists /\ ohm_sensors = <<>>
       \/ hwinfo_sensors = <<>> /\ ohm_sensors \in OhmLists
       \/ /\ hwinfo_sensors = << HWiNFOSensor(cstr(N_Ryzen), L_Tctl, Num(55), SENSOR_TYPE_TEMP),
                                HWiNFOSensor(N_RTX, L_Core, Num(1800), SENSOR_TYPE_CLOCK) >>
          /\ ohm_sensors = << Sensor(L_GPUCore, "Load", P_gpu, Num(40)),
                             Sensor(L_CPUCore, "Clock", P_cpu, Num(4200)) >>
    /\ classified = NotClassified

\* the state of the monitor, which no classifier pass touches
monitor_vars ==
    <<reader, kernel, hwinfo_reader, nvidia_monitor, nvml, wmi_monitor, pc, stats,
      psutil_sample, ohm_stats, wmi_temp, nvidia_stats, hwinfo_cpu_stats,
      hwinfo_stats, last_read, shutdown_calls, prev_gpu_fan_percent>>

\* mutant of Classify_cpu: a repeated pass sees the list without its first
\* reading
Classify_cpu_Leftover ==
    /\ Len(classified.cpu) < MaxPasses
    /\ hwinfo_sensors # <<>> \/ ohm_sensors = <<>>
    /\ classified' = [classified EXCEPT !.cpu =
            Append(@, get_cpu_stats(IF @ # <<>> /\ hwinfo_sensors # <<>>
                                    THEN Tail(hwinfo_sensors) ELSE hwinfo_sensors))]
    /\ UNCHANGED <<hwinfo_sensors, ohm_sensors, monitor_vars>>

\* one call of get_cpu_stats on the list
Classify_cpu ==
    /\ Len(classified.cpu) < MaxPasses
    /\ hwinfo_sensors # <<>> \/ ohm_sensors = <<>>
    /\ classified' = [classified EXCEPT !.cpu = Append(@, get_cpu_stats(hwinfo_sensors))]
    /\ UNCHANGED <<hwinfo_sensors, ohm_sensors, monitor_vars>>

\* one call of get_gpu_stats on the list
Classify_gpu ==
    /\ Len(classified.gpu) < MaxPasses
    /\ hwinfo_sensors # <<>> \/ ohm_sensors = <<>>
    /\ classified' = [classified EXCEPT !.gpu = Append(@, get_gpu_stats(hwinfo_sensors))]
    /\ UNCHANGED <<hwinfo_sensors, ohm_sensors, monitor_vars>>

\* one call of get_all_ohm_stats on the list
Classify_ohm ==
    /\ Len(classified.ohm) < MaxPasses
    /\ ohm_sensors # <<>> \/ hwinfo_sensors = <<>>
    /\ classified' = [classified EXCEPT !.ohm =
            Append(@, get_all_ohm_stats(wmi_monitor, [raises |-> FALSE,
                                                      sensors |-> ohm_sensors]))]
    /\ UNCHANGED <<hwinfo_sensors, ohm_sensors, monitor_vars>>

NextClassify ==
    \/ Classify_cpu
    \/ Classify_gpu
    \/ Classify_ohm

SpecClassify == InitClassify /\ [][NextClassify]_vars

\* HardwareMonitor.get_status_info: the dict it returns in the current state
get_status_info ==
    [nvml    |-> nvidia_monitor.initialized,
     wmi     |-> wmi_monitor.initialized,
     ohm_lhm |-> IF wmi_monitor.initialized THEN wmi_monitor.ohm_available ELSE FALSE]

(***************************************************************************)
(* The tiers of a finished poll, field by field                            *)
(***************************************************************************)
OptionalFields ==
    {"cpu_temp", "cpu_clock", "cpu_fan_rpm", "gpu_temp", "gpu_usage", "gpu_clock",
     "gpu_memory_used", "gpu_memory_total", "gpu_fan_rpm", "gpu_fan_percent",
     "gpu_power", "fps"}

\* the fields the vendor GPU feed reports
TierBFields == DOMAIN NoNvidiaStats

\* the fields the shared-memory feed reports
TierCFields ==
    {"cpu_temp", "cpu_clock", "cpu_fan_rpm", "gpu_temp", "gpu_usage", "gpu_clock",
     "gpu_fan_rpm", "fps"}

\* what Tier A reported for f: the classifier's value, for cpu_temp else the
\* thermal-zone fallback's
ReportedA(f) ==
    IF f = "cpu_temp" THEN (IF ohm_stats.cpu_temp # None THEN ohm_stats.cpu_temp ELSE wmi_temp)
    ELSE IF f \in DOMAIN ohm_stats THEN ohm_stats[f]
    ELSE None

ReportedB(f) == IF f \in TierBFields THEN nvidia_stats[f] ELSE None

ReportedC(f) ==
    CASE f = "cpu_fan_rpm" -> hwinfo_stats.cpu_fan
      [] f = "gpu_fan_rpm" -> hwinfo_stats.gpu_fan
      [] f \in DOMAIN hwinfo_stats -> hwinfo_stats[f]
      [] OTHER -> None

\* snapshot[f] = TierB[f] if present else (TierA[f] if present else (TierC[f] ...))
MergeRule(f) ==
    IF ReportedB(f) # None THEN ReportedB(f)
    ELSE IF ReportedA(f) # None THEN ReportedA(f)
    ELSE ReportedC(f)

\* get_stats as a function of what the backends answered in one poll
Reconcile(sample, ohm, zone, nv, hw) ==
    LET a == MergeOhm(ReadPsutil(sample), ohm)
        b == IF a.cpu_temp = None THEN [a EXCEPT !.cpu_temp = zone] ELSE a
    IN  MergeHwinfo(MergeNvidia(b, nv), hw)

\* the first n readings of a list
Prefix(ss, n) == SubSeq(ss, 1, n)

\* the categories whose kept value the i-th reading of ss supplies in
\* get_cpu_stats: the iteration on it stores into the category (for
\* cpu_clock: raises best_clock to the value that is reported in the end)
CpuTakes(ss, i) ==
    LET a == CpuLoop([stats |-> NoCpuStats, best_clock |-> Num(0), raised |-> FALSE],
                     Prefix(ss, i - 1), 1)
        b == CpuLoopBody(a, ss[i])
    IN  { f \in {"cpu_temp", "cpu_fan"} : b.stats[f] # a.stats[f] }
        \cup (IF b.best_clock # a.best_clock
                 /\ get_cpu_stats(ss).stats.cpu_clock = b.best_clock
              THEN {"cpu_clock"} ELSE {})

\* the same for the second loop of get_gpu_stats
GpuTakes(ss, i) ==
    LET a == GpuLoop([stats |-> FpsLoop(NoGpuStats, ss, 1), raised |-> FALSE],
                     Prefix(ss, i - 1), 1)
        b == GpuLoopBody(a, ss[i])
    IN  { f \in {"gpu_temp", "gpu_clock", "gpu_fan", "gpu_usage"} : b.stats[f] # a.stats[f] }

\* the i-th reading of ss is the one the FPS scan of get_gpu_stats keeps
FpsTakes(ss, i) ==
    /\ FpsLoop(NoGpuStats, Prefix(ss, i - 1), 1).fps = None
    /\ FpsLoop(NoGpuStats, Prefix(ss, i), 1).fps # None

\* the categories the i-th sensor of ss is stored into by get_all_ohm_stats
OhmTakes(ss, i) ==
    LET a == OhmLoop([stats |-> NoOhmStats, raised |-> FALSE], Prefix(ss, i - 1), 1)
        b == OhmLoopBody(a, ss[i])
    IN  { f \in DOMAIN NoOhmStats : b.stats[f] # a.stats[f] }

\* a value that is finite, not NaN and > 0
PositiveFinite(x) == x.k = "fin" /\ x.v > 0

\* the fields of NvidiaMonitor.get_stats' dict that the read of metric m fills
FieldsOf(m) ==
    CASE m = "temp"  -> {"gpu_temp"}
      [] m = "util"  -> {"gpu_usage"}
      [] m = "mem"   -> {"gpu_memory_used", "gpu_memory_total"}
      [] m = "clock" -> {"gpu_clock"}
      [] m = "fan"   -> {"gpu_fan_percent"}

\* a temperature strictly between 0 and 150
SaneTemp(x) == Gt(x, 0) /\ Lt(x, 150)

(***************************************************************************)
(* Claims                                                                  *)
(***************************************************************************)

\* C1 (override priority): in the Snapshot a poll returns, every field the
\* vendor GPU feed reported holds the vendor feed's value, whatever the
\* instrumentation feed and the shared-memory feed reported for it.
C1_OverridePriority ==
    pc = "returned" =>
        \A f \in TierBFields : nvidia_stats[f] # None => stats[f] = nvidia_stats[f]

\* C1 witness: all three tiers reported gpu_temp, with three different values.
C1_Witness ==
    /\ pc = "returned"
    /\ nvidia_stats.gpu_temp # None
    /\ ohm_stats.gpu_temp # None
    /\ hwinfo_stats.gpu_temp # None
    /\ ohm_stats.gpu_temp # nvidia_stats.gpu_temp
    /\ hwinfo_stats.gpu_temp # nvidia_stats.gpu_temp
    /\ hwinfo_stats.gpu_temp # ohm_stats.gpu_temp

\* C2 (gap-fill only): the steps of get_stats that consult the shared-memory
\* feed never change a Snapshot field that an earlier tier has set.
C2_GapFillOnly ==
    [][(pc \in {"tierC_cpu", "tierC_gpu"}) =>
          (\A f \in DOMAIN stats : stats[f] # None => stats[f] = stats'[f])]_vars

\* C2 witness: Tier A set cpu_clock and the shared-memory feed reported
\* another value for it.
C2_Witness ==
    /\ pc = "returned"
    /\ ohm_stats.cpu_clock # None
    /\ hwinfo_stats.cpu_clock # None
    /\ hwinfo_stats.cpu_clock # ohm_stats.cpu_clock

C5_TierDFrame ==
    pc \in {"tierA", "tierB", "tierC_cpu", "tierC_gpu", "returned"} =>
        /\ stats.cpu_usage = psutil_sample.cpu_percent
        /\ stats.ram_usage = psutil_sample.percent
        /\ stats.ram_used_gb = ToGB(psutil_sample.used)
        /\ stats.ram_total_gb = ToGB(psutil_sample.total)

\* C5 witness: a Snapshot in which all three other tiers reported something
\* and the OS counters are the non-default sample.
C5_Witness ==
    /\ pc = "returned"
    /\ ohm_stats # NoOhmStats
    /\ nvidia_stats # NoNvidiaStats
    /\ hwinfo_stats # NoHwinfoStats
    /\ stats.cpu_usage = Fin(2340)
    /\ stats.ram_used_gb = Fin(809)

\* C6 (range filtering): a temperature that a classified reading put into
\* the Snapshot's cpu_temp or gpu_temp lies strictly between 0 and 150.
\* (cpu_temp has no other source; gpu_temp is a reading's unless NVML
\* reported it.)
C6_RangeFiltering ==
    pc = "returned" =>
        /\ stats.cpu_temp # None => SaneTemp(stats.cpu_temp)
        /\ stats.gpu_temp # None /\ nvidia_stats.gpu_temp = None => SaneTemp(stats.gpu_temp)

\* C7 (failure isolation): no poll ends with an exception reaching the
\* caller of get_stats.
C7_FailureIsolation == pc # "raised"

\* C8 (shared-memory read contract): a read_sensors call that met a failure
\* returned the empty list.
C8_EmptyOnFailure == last_read.failed => last_read.len = 0

\* C9 (resync idempotence): a read_sensors call that saw a wrong signature
\* returned the empty list, and the feed never held more than one open
\* handle or more than one mapped view, not even inside a call.
C9_ResyncNoLeak ==
    /\ last_read.stale => last_read.len = 0 /\ last_read.failed
    /\ kernel.peak <= 1
    /\ Cardinality(kernel.open) <= 1
    /\ Cardinality(kernel.views) <= 1
    /\ kernel.views \subseteq kernel.open

\* C9 witness: two consecutive read_sensors calls saw a wrong signature each,
\* and the mapping was re-opened in between.
C9_Witness ==
    /\ last_read.stale
    /\ last_read.stale_before
    /\ kernel.issued >= 2

\* C10 (shutdown releases everything): when HardwareMonitor.shutdown()
\* returns, NVML is not left initialised and the shared-memory feed holds no
\* mapped view and no open handle.
C10_ShutdownReleases ==
    [][(shutdown_calls' = shutdown_calls + 1) =>
          /\ nvml'.state # "on"
          /\ kernel'.open = {}
          /\ kernel'.views = {}
          /\ ~reader'.initialized]_vars

\* C11 (shutdown is idempotent): over any sequence of HardwareMonitor.shutdown()
\* calls, nvmlShutdown is performed at most once.
C11_ShutdownOnce == nvml.shutdowns <= 1

\* C12 (status map completeness): the dict of get_status_info has, next to
\* the entries of the vendor feed and of the instrumentation feed, an entry
\* for the shared-memory feed, and that entry is true exactly when the
\* segment is mapped.
C12_StatusComplete ==
    /\ get_status_info.nvml = nvidia_monitor.initialized
    /\ get_status_info.wmi = wmi_monitor.initialized
    /\ \E k \in DOMAIN get_status_info \ {"nvml", "wmi", "ohm_lhm"} :
          get_status_info[k] = reader.initialized

\* C13 (from-scratch reconciliation): the Snapshot a poll returns is computed
\* from what the backends answered in this poll alone, and a field that no
\* tier reported in this poll is absent from it, whatever the Snapshots of
\* earlier polls held.
C13_FromScratch ==
    pc = "returned" =>
        /\ stats = Reconcile(psutil_sample, ohm_stats, wmi_temp, nvidia_stats, hwinfo_stats)
        /\ \A f \in OptionalFields :
              ReportedA(f) = None /\ ReportedB(f) = None /\ ReportedC(f) = None
                  => stats[f] = None

\* C13 witness: the previous poll's Snapshot held gpu_fan_percent, no tier
\* reported it in this poll, and this poll's Snapshot does not hold it.
C13_Witness ==
    /\ pc = "returned"
    /\ prev_gpu_fan_percent # None
    /\ ReportedA("gpu_fan_percent") = None
    /\ ReportedB("gpu_fan_percent") = None
    /\ ReportedC("gpu_fan_percent") = None
    /\ stats.gpu_fan_percent = None

\* C14 (no double classification): once a list has been classified, no
\* reading of it supplies both a CPU category and a GPU category, or both
\* fps and a GPU category, and no instrumentation sensor is stored into two
\* categories.
C14_NoDoubleClassification ==
    /\ classified.cpu # <<>> /\ classified.gpu # <<>> =>
          \A i \in DOMAIN hwinfo_sensors :
              /\ ~(CpuTakes(hwinfo_sensors, i) # {} /\ GpuTakes(hwinfo_sensors, i) # {})
              /\ ~(FpsTakes(hwinfo_sensors, i) /\ GpuTakes(hwinfo_sensors, i) # {})
    /\ classified.ohm # <<>> =>
          \A i \in DOMAIN ohm_sensors : Cardinality(OhmTakes(ohm_sensors, i)) <= 1

C16_FirstFoundWins ==
    /\ \A k \in DOMAIN classified.cpu : \A n \in 0..Len(hwinfo_sensors) :
          LET p == get_cpu_stats(Prefix(hwinfo_sensors, n))
          IN  ~classified.cpu[k].raised /\ ~p.raised =>
                  \A f \in DOMAIN NoCpuStats :
                      p.stats[f] # None => classified.cpu[k].stats[f] = p.stats[f]
    /\ \A k \in DOMAIN classified.gpu : \A n \in 0..Len(hwinfo_sensors) :
          LET p == get_gpu_stats(Prefix(hwinfo_sensors, n))
          IN  ~classified.gpu[k].raised /\ ~p.raised =>
                  \A f \in DOMAIN NoGpuStats \ {"fps"} :
                      p.stats[f] # None => classified.gpu[k].stats[f] = p.stats[f]
    /\ \A k \in DOMAIN classified.ohm : \A n \in 0..Len(ohm_sensors) :
          LET p == get_all_ohm_stats(wmi_monitor,
                       [raises |-> FALSE, sensors |-> Prefix(ohm_sensors, n)])
          IN  \A f \in DOMAIN NoOhmStats :
                  p[f] # None => classified.ohm[k][f] = p[f]

\* C17 (clock/fan/usage sanity): every clock, fan and usage value in a
\* classifier's result is finite, not NaN and > 0.
C17_ClockFanUsageSane ==
    /\ \A k \in DOMAIN classified.cpu : \A f \in {"cpu_clock", "cpu_fan"} :
          classified.cpu[k].stats[f] # None => PositiveFinite(classified.cpu[k].stats[f])
    /\ \A k \in DOMAIN classified.gpu : \A f \in {"gpu_clock", "gpu_fan", "gpu_usage"} :
          classified.gpu[k].stats[f] # None => PositiveFinite(classified.gpu[k].stats[f])
    /\ \A k \in DOMAIN classified.ohm :
          \A f \in {"cpu_clock", "gpu_clock", "cpu_fan_rpm", "gpu_fan_rpm", "gpu_usage"} :
              classified.ohm[k][f] # None => PositiveFinite(classified.ohm[k][f])

\* C18 (device ownership precedes metric matching): in the shared-memory
\* classifiers a reading whose device name matches a GPU token supplies no
\* CPU category, and a reading supplies a GPU category only if its device
\* name matches a GPU token.
C18_DeviceOwnership ==
    classified.cpu # <<>> /\ classified.gpu # <<>> =>
        \A i \in DOMAIN hwinfo_sensors :
            /\ is_gpu(lower(hwinfo_sensors[i].name)) => CpuTakes(hwinfo_sensors, i) = {}
            /\ GpuTakes(hwinfo_sensors, i) # {} => is_gpu(lower(hwinfo_sensors[i].name))

\* C19 (resync policy): in every read_sensors call that can start here and
\* finds a short header or a wrong signature, the reader closes the mapping
\* (the old view is unmapped) and then enters _init_shared_memory exactly
\* once; if the feed is uninitialized when the call returns, the call
\* returns the empty list and every next read_sensors call begins with
\* _init_shared_memory.
C19_ResyncPolicy ==
    hwinfo_reader /\ pc \in {"tierC_cpu", "tierC_gpu"} =>
        \A env \in ReadEnvs(World) :
            LET w1     == _ensure_initialized(World, env.openOk, env.mapOk)
                rs     == read_sensors(World, env)
                resync == SubSeq(rs.w.log, Len(w1.log) + 1, Len(rs.w.log))
                after  == [rs.w EXCEPT !.log = <<>>]
            IN  w1.rd.initialized
                /\ (ReadLen(w1, 48) < 48 \/ env.img.signature # HWINFO_SIGNATURE)
                =>  /\ resync = <<"_close", "_init_shared_memory", "_close">>
                    /\ w1.rd.map_address \notin rs.w.os.views
                    /\ ~rs.w.rd.initialized =>
                          /\ rs.sensors = <<>>
                          /\ \A env2 \in ReadEnvs(after) :
                                Head(read_sensors(after, env2).w.log) = "_init_shared_memory"

\* C19 witness: the first read_sensors call of a poll met a wrong signature,
\* its re-initialization failed, and the feed is left uninitialized with
\* nothing open before the poll's next call.
C19_Witness ==
    /\ pc = "tierC_gpu"
    /\ last_read.calls = 1
    /\ last_read.stale
    /\ ~reader.initialized
    /\ kernel.open = {}
    /\ kernel.issued >= 1

\* C20 (asymmetric retry): a vendor GPU feed or an instrumentation feed that
\* is not initialized reports nothing in any poll, has a false status entry,
\* and stays uninitialized in every step; the shared-memory feed, when a
\* poll finds it uninitialized, begins each of its read_sensors calls by
\* trying to map again.
C20_AsymmetricRetry ==
    /\ [](/\ ~nvidia_monitor.initialized =>
              /\ nvidia_stats = NoNvidiaStats
              /\ ~get_status_info.nvml
              /\ pc = "returned" =>
                    \A f \in {"gpu_memory_used", "gpu_memory_total", "gpu_fan_percent"} :
                        stats[f] = None
          /\ ~wmi_monitor.ohm_available =>
              /\ ohm_stats = NoOhmStats
              /\ ~get_status_info.ohm_lhm
          /\ ~wmi_monitor.initialized =>
              /\ wmi_temp = None
              /\ ~get_status_info.wmi
          /\ hwinfo_reader /\ pc \in {"tierC_cpu", "tierC_gpu"} /\ ~reader.initialized =>
              \A env \in ReadEnvs(World) :
                  /\ read_sensors(World, env).w.log # <<>>
                  /\ Head(read_sensors(World, env).w.log) = "_init_shared_memory")
    /\ [][nvidia_monitor' = nvidia_monitor /\ wmi_monitor' = wmi_monitor]_vars

\* C20 witness: a poll returned with the vendor GPU feed and the
\* instrumentation feed both failed at construction, while the shared-memory
\* feed, whose first handle was closed, has mapped again and reported fields.
C20_Witness ==
    /\ pc = "returned"
    /\ ~nvidia_monitor.initialized
    /\ ~wmi_monitor.initialized
    /\ hwinfo_reader
    /\ reader.initialized
    /\ reader.handle = 2
    /\ kernel.closes[1] = 1
    /\ hwinfo_stats # NoHwinfoStats
    /\ stats.gpu_fan_percent = None

\* C21 (per-metric isolation): with NVML up, for every set of metric reads
\* that raise, NvidiaMonitor.get_stats returns the fields of exactly the
\* reads that did not raise; and the dict a poll got from it is one of these.
C21_PerMetricIsolation ==
    nvidia_monitor.initialized /\ nvml.state = "on" =>
        /\ \A fails \in SUBSET NvMetrics : \A dev \in NvDevices :
              LET r == NvidiaMonitor_get_stats(nvidia_monitor, nvml, fails, dev)
              IN  \A m \in NvMetrics : \A f \in FieldsOf(m) :
                      (r[f] = None) <=> (m \in fails)
        /\ pc \in {"tierC_cpu", "tierC_gpu", "returned", "raised"} =>
              \A m \in NvMetrics : \A f, g \in FieldsOf(m) :
                  (nvidia_stats[f] = None) <=> (nvidia_stats[g] = None)

\* C21 witness: in a poll the temperature read raised and the other four
\* reads answered.
C21_Witness ==
    /\ pc = "tierC_cpu"
    /\ nvml.state = "on"
    /\ nvidia_stats.gpu_temp = None
    /\ nvidia_stats.gpu_usage # None
    /\ nvidia_stats.gpu_memory_used # None
    /\ nvidia_stats.gpu_clock # None
    /\ nvidia_stats.gpu_fan_percent # None

\* the header counts no record that the view does not hold
InsideView(img) ==
    /\ img.signature = HWINFO_SIGNATURE
    /\ img.sensor_count <= Len(img.sensors)
    /\ img.reading_count <= Len(img.readings)

\* C22 (record-level skip): in a read_sensors call that starts on a mapped
\* feed and meets a valid header, records
\* read shorter than 136 (sensor) or 292 (reading) bytes are passed over and
\* the call neither fails nor loses the other records: short sensor records
\* leave every reading emitted (under the name Unknown), short reading
\* records leave an empty, unfailed result.
C22_RecordLevelSkip ==
    pc \in {"tierC_cpu", "tierC_gpu"} /\ reader.initialized =>
        \A img \in Segments :
            InsideView(img) /\ ShortRecords(World, img) > 0 =>
                LET r == ParseTables(World, img)
                    shortS == Min(img.sensor_size, 200) < 136
                    shortR == Min(img.reading_size, 300) < 292
                IN  /\ ~r.failed
                    /\ Len(r.sensors) = IF shortR THEN 0 ELSE img.reading_count
                    /\ shortS =>
                          \A i \in 1..Len(r.sensors) :
                              /\ r.sensors[i].name = t_Unknown
                              /\ r.sensors[i].value = img.readings[i].value

\* C22 witness: a read passed over short records and still returned readings.
C22_Witness ==
    /\ pc = "tierC_gpu"
    /\ last_read.skipped > 0
    /\ last_read.len > 0
    /\ ~last_read.failed

\* the name the sensor table gives for a sensor index
JoinedName(img, idx) ==
    IF idx \in 0..(img.sensor_count - 1) /\ Min(img.sensor_size, 200) >= 136
    THEN cstr(img.sensors[idx + 1]) ELSE t_Unknown

\* C23 (join and emit): in a read_sensors call that starts on a mapped feed
\* and meets a valid header whose tables lie
\* inside the view, read_sensors' list has one entry per full-length reading
\* record, in table order, each with the record's label, value and type and
\* the name of the sensor record at its sensor index, or Unknown when the
\* table has no such record.
C23_JoinAndEmit ==
    pc \in {"tierC_cpu", "tierC_gpu"} /\ reader.initialized =>
        \A img \in Segments :
            InsideView(img) =>
                LET r == ParseTables(World, img)
                IN  /\ ~r.failed
                    /\ Len(r.sensors) =
                          IF Min(img.reading_size, 300) < 292 THEN 0
                          ELSE img.reading_count
                    /\ \A i \in 1..Len(r.sensors) :
                          r.sensors[i] =
                              HWiNFOSensor(JoinedName(img, img.readings[i].sensor_index),
                                           cstr(img.readings[i].label),
                                           img.readings[i].value,
                                           img.readings[i].sensor_type)

\* C23 witness: a read emitted two full-length records, and the Tctl reading
\* was classified as CPU temperature, which takes the joined name Ryzen.
C23_Witness ==
    /\ pc = "tierC_gpu"
    /\ last_read.len = 2
    /\ last_read.skipped = 0
    /\ ~last_read.failed
    /\ hwinfo_cpu_stats.cpu_temp = Num(55)

\* C24 (Tier A fallback): in a poll where Tier A ran and its classifier gave
\* no cpu_temp, the thermal-zone result is in the Snapshot before Tier B and
\* Tier C have been consulted, it is written only when strictly between 0
\* and 150, and the returned cpu_temp is Tier C's only when the classifier
\* and the fallback both gave nothing; when the classifier gave cpu_temp
\* the fallback is not used.
C24_TierAFallback ==
    pc \in {"tierB", "tierC_cpu", "tierC_gpu", "returned", "raised"}
        /\ wmi_monitor.initialized =>
        IF ohm_stats.cpu_temp = None
        THEN /\ wmi_temp # None => SaneTemp(wmi_temp)
             /\ pc = "tierB" => /\ stats.cpu_temp = wmi_temp
                                /\ nvidia_stats = NoNvidiaStats
                                /\ last_read.calls = 0
             /\ pc \in {"tierC_cpu", "tierC_gpu"} => stats.cpu_temp = wmi_temp
             /\ pc = "returned" =>
                   stats.cpu_temp = IF wmi_temp # None THEN wmi_temp
                                    ELSE hwinfo_stats.cpu_temp
        ELSE /\ wmi_temp = None
             /\ pc # "raised" => stats.cpu_temp = ohm_stats.cpu_temp

\* C24 witness: the classifier gave no cpu_temp, the thermal zone and Tier C
\* gave different ones, and the poll returned the thermal zone's.
C24_Witness ==
    /\ pc = "returned"
    /\ wmi_monitor.initialized
    /\ ohm_stats.cpu_temp = None
    /\ wmi_temp # None
    /\ hwinfo_stats.cpu_temp # None
    /\ hwinfo_stats.cpu_temp # wmi_temp
    /\ stats.cpu_temp = wmi_temp

\* what a poll holds of each tier before it has consulted the tier
NotConsultedA == ohm_stats = NoOhmStats /\ wmi_temp = None
NotConsultedB == nvidia_stats = NoNvidiaStats
NotConsultedC == last_read.calls = 0 /\ hwinfo_cpu_stats = NoCpuStats
                 /\ hwinfo_stats = NoHwinfoStats
NotConsultedD == psutil_sample = NoSample

\* C25 as stated (tier order A, B, C, D): within a poll no tier has been
\* consulted while a tier before it in the order A, B, C, D is still to
\* come; Tier D, the OS counters, is consulted after Tier C.
C25_TierOrderDLast ==
    /\ pc = "idle" => NotConsultedA /\ NotConsultedB /\ NotConsultedC /\ NotConsultedD
    /\ pc = "tierA" => NotConsultedA /\ NotConsultedB /\ NotConsultedC /\ NotConsultedD
    /\ pc = "tierB" => NotConsultedB /\ NotConsultedC /\ NotConsultedD
    /\ pc = "tierC_cpu" => NotConsultedC /\ NotConsultedD
    /\ pc = "tierC_gpu" => NotConsultedD

\* C25 (tier order, amended): within a poll the OS counters (Tier D) are
\* read first, and then Tier A, Tier B and Tier C are consulted in this
\* order: no tier has been consulted while a tier before it in the order
\* D, A, B, C is still to come.
C25_TierOrder ==
    /\ pc = "idle" => NotConsultedD /\ NotConsultedA /\ NotConsultedB /\ NotConsultedC
    /\ pc = "tierA" => ~NotConsultedD /\ NotConsultedA /\ NotConsultedB /\ NotConsultedC
    /\ pc = "tierB" => ~NotConsultedD /\ NotConsultedB /\ NotConsultedC
    /\ pc = "tierC_cpu" => ~NotConsultedD /\ NotConsultedC
    /\ pc \in {"tierC_gpu", "returned", "raised"} => ~NotConsultedD

\* C25 witness: a poll that consulted all four sources and got fields from
\* each of them.
C25_Witness ==
    /\ pc = "returned"
    /\ ~NotConsultedD
    /\ ohm_stats # NoOhmStats
    /\ nvidia_stats # NoNvidiaStats
    /\ last_read.calls = 2
    /\ hwinfo_stats # NoHwinfoStats

\* C26 (single read per poll): the shared-memory fields of a returned
\* Snapshot are classified from one list of raw readings, the one the poll's
\* read returned: when that list is empty the feed contributes no field,
\* neither a CPU nor a GPU/FPS one.
C26_SingleRead ==
    pc = "returned" /\ hwinfo_reader /\ last_read.len = 0 =>
        hwinfo_stats = NoHwinfoStats

\* C27 (handle released exactly once): no handle that OpenFileMappingW
\* returned has been passed to CloseHandle twice, and every such handle that
\* the reader no longer holds has been passed to it once.
C27_ClosedExactlyOnce ==
    \A h \in 1..kernel.issued :
        /\ kernel.closes[h] <= 1
        /\ h # reader.handle => kernel.closes[h] = 1

\* the environment of a read_sensors call in which the segment can be opened
\* and mapped and holds img
Healthy(img) ==
    [openOk |-> TRUE, mapOk |-> TRUE, img |-> img, reopenOk |-> TRUE, remapOk |-> TRUE]

C29_MismatchPollEmpty ==
    /\ last_read.stale => last_read.len = 0
    /\ hwinfo_reader /\ pc \in {"tierC_cpu", "tierC_gpu"} =>
          \A env \in ReadEnvs(World) :
              LET w1 == _ensure_initialized(World, env.openOk, env.mapOk)
                  rs == read_sensors(World, env)
              IN  w1.rd.initialized /\ env.img.signature # HWINFO_SIGNATURE =>
                      /\ rs.sensors = <<>>
                      /\ rs.w.rd.initialized <=> (env.reopenOk /\ env.remapOk)
                      /\ rs.w.rd.initialized =>
                            /\ rs.w.rd.handle # w1.rd.handle
                            /\ rs.w.os.views = {rs.w.rd.map_address}

\* C29 witness: the first read of a poll met a wrong signature and mapped
\* the segment again, and returned nothing.
C29_Witness ==
    /\ pc = "tierC_gpu"
    /\ last_read.calls = 1
    /\ last_read.stale
    /\ last_read.len = 0
    /\ reader.initialized
    /\ kernel.views = {reader.map_address}

\* C30 (no vendor call after shutdown): once HardwareMonitor.shutdown has
\* run, a poll that reaches the NVML block finds the vendor feed
\* uninitialized, so that NvidiaMonitor.get_stats issues no NVML call, and
\* Tier B contributes no field.
C30_NoVendorCallAfterShutdown ==
    shutdown_calls > 0 =>
        /\ nvidia_stats = NoNvidiaStats
        /\ pc = "tierB" => ~(nvidia_monitor.initialized /\ nvidia_monitor.handle)

====
